---- MODULE Spec2Model ----
(***************************************************************************)
(* Model of the portfolio dashboard of app_portefeuille.py and             *)
(* risk_portefeuille.py.  Three specifications share the module:           *)
(*   SpecParse  lire_portefeuille reading the holdings file line by line   *)
(*   SpecRisk   calculs_financiers followed by show_risk_dashboard         *)
(*   SpecProj   show_projections (fixed-rate and Monte Carlo projection)   *)
(* Floating-point values are modelled exactly: decimal literals as         *)
(* fractions, returns in units of 1/RetScale, projected values as dyadic   *)
(* numbers m * 2^e.  NaN is a distinguished value that every arithmetic    *)
(* operation propagates.                                                   *)
(***************************************************************************)
EXTENDS Integers, Sequences, FiniteSets, TLC

VARIABLES
    pc,             \* position of the running function
    lines,          \* SpecParse: the lines of the holdings file
    li,             \* SpecParse: index of the next line to read
    data,           \* SpecParse: rows appended so far (list `data`)
    portefeuille,   \* SpecParse: the returned DataFrame, or NoFrame
    portfolio,      \* SpecRisk: rows [Ticker, Quantite] read from the file
    cours,          \* SpecRisk: what get_current_price returns per ticker
    market,         \* SpecRisk: what yf.Ticker(t).history() does per ticker
    df_portfolio,   \* SpecRisk: rows [Ticker, Valeur] after calculs_financiers
    ti,             \* SpecRisk: index of the next ticker in get_price_history
    price_hist,     \* SpecRisk: keys of the dict price_hist, insertion order
    missing,        \* SpecRisk: the list `missing`
    price_df,       \* SpecRisk: price table returned by get_price_history
    returns,        \* SpecRisk: price_df.pct_change().dropna()
    weights,        \* SpecRisk: rows [Ticker, num, den], weight = num / den
    vol_annual,     \* SpecRisk: rows [Ticker, vol2], squared volatility
    var_95,         \* SpecRisk: VaR at 95 %
    var_99,         \* SpecRisk: VaR at 99 %
    corr_matrix,    \* SpecRisk: correlation in hundredths, per ticker pair
    proj_args,      \* SpecRisk: arguments show_projections was called with
    started,        \* SpecRisk: the downstream stages started so far
    result,         \* SpecRisk: what show_risk_dashboard returned
    valeur_actuelle,     \* SpecProj: argument V of show_projections
    rendement_annuel,    \* SpecProj: argument r, in percent
    volatilite_annuelle, \* SpecProj: argument sigma, in percent
    rng,            \* SpecProj: state of the random generator
    proj_moy,       \* SpecProj: fixed-rate projection per horizon
    yi,             \* SpecProj: index in YEARS of the horizon being simulated
    sim_values,     \* SpecProj: ending values collected for that horizon
    proj_stoch      \* SpecProj: median, 5th and 95th percentile per horizon

parseVars == <<lines, li, data, portefeuille>>

riskInputs == <<portfolio, cours, market>>

riskVars ==
    <<portfolio, cours, market, df_portfolio, ti, price_hist, missing, price_df,
      returns, weights, vol_annual, var_95, var_99, corr_matrix, proj_args,
      started, result>>

projInputs == <<valeur_actuelle, rendement_annuel, volatilite_annuelle>>

projVars ==
    <<valeur_actuelle, rendement_annuel, volatilite_annuelle, rng, proj_moy, yi,
      sim_values, proj_stoch>>

vars == <<pc, parseVars, riskVars, projVars>>

(***************************************************************************)
(* Bounds                                                                  *)
(***************************************************************************)
MaxLines == 2       \* lines in a holdings file

MaxDates == 3       \* trading days of the lookback window

MaxQty == 2         \* largest quantity of a position

MaxV == 2           \* largest current portfolio value given to show_projections

(***************************************************************************)
(* Small helpers                                                           *)
(***************************************************************************)
Range(s) == {s[k] : k \in 1..Len(s)}

Max(a, b) == IF a >= b THEN a ELSE b

Min(a, b) == IF a <= b THEN a ELSE b

(***************************************************************************)
(* Values of the risk pipeline                                             *)
(***************************************************************************)
\* float NaN (also what a None price becomes in a float column)
NaN == -999999

IsNaN(x) == x = NaN

NanMul(a, b) == IF IsNaN(a) \/ IsNaN(b) THEN NaN ELSE a * b

NanAdd(a, b) == IF IsNaN(a) \/ IsNaN(b) THEN NaN ELSE a + b

Tickers == {"A", "B"}

Dates == 1..MaxDates

\* closing prices a history can hold
Prices == {1, 2}

\* current prices get_current_price can return when it does not fail
CoursPool == {1}

\* returns are kept in units of 1/RetScale, a common multiple of the prices
RetScale == CHOOSE m \in 1..8 :
    /\ \A p \in Prices : m % p = 0
    /\ \A k \in 1..(m - 1) : \E p \in Prices : k % p # 0

NoData == [d \in Dates |-> NaN]

\* outcomes of yf.Ticker(t).history(period)['Close']: an exception, or a
\* Series that is empty, or holds a price on each of its dates, or holds
\* NaN on each of its dates
Outcomes ==
    {[raises |-> TRUE, index |-> {}, close |-> NoData]}
    \cup {[raises |-> FALSE, index |-> {}, close |-> NoData]}
    \cup {[raises |-> FALSE, index |-> S, close |-> NoData] : S \in SUBSET Dates \ {{}}}
    \cup UNION {{[raises |-> FALSE, index |-> S,
                  close |-> [d \in Dates |-> IF d \in S THEN f[d] ELSE NaN]] :
                    f \in [S -> Prices]} : S \in SUBSET Dates \ {{}}}

NoOutcome == [raises |-> TRUE, index |-> {}, close |-> NoData]

\* a DataFrame of floats: ordered columns, sorted index, one value per cell
Frame(cols, idx, val) == [columns |-> cols, index |-> idx, val |-> val]

EmptyFrame == Frame(<<>>, {}, <<>>)

\* DataFrame.empty: no column or no row
IsEmpty(f) == f.columns = <<>> \/ f.index = {}

Column(f, t) == f.val[CHOOSE k \in 1..Len(f.columns) : f.columns[k] = t]

PendingResult == [kind |-> "pending", vol_annual |-> <<>>, var_95 |-> NaN, var_99 |-> NaN]

\* the returned (None, None, None)
Sentinel == [kind |-> "none", vol_annual |-> <<>>, var_95 |-> NaN, var_99 |-> NaN]

NoArgs == [called |-> FALSE, valeur_actuelle |-> 0, rendement_annuel |-> 0,
           volatilite_annuelle |-> <<>>]

IdleRisk ==
    /\ portfolio = <<>>
    /\ cours = [t \in Tickers |-> NaN]
    /\ market = [t \in Tickers |-> NoOutcome]
    /\ df_portfolio = <<>>
    /\ ti = 1
    /\ price_hist = <<>>
    /\ missing = <<>>
    /\ price_df = EmptyFrame
    /\ returns = EmptyFrame
    /\ weights = <<>>
    /\ vol_annual = <<>>
    /\ var_95 = NaN
    /\ var_99 = NaN
    /\ corr_matrix = <<>>
    /\ proj_args = NoArgs
    /\ started = {}
    /\ result = PendingResult

(***************************************************************************)
(* Values of the projections: dyadic numbers m * 2^e with m odd or zero    *)
(***************************************************************************)
YEARS == <<1, 5, 10, 20, 30>>

SIMULATIONS == 1000

Zero == [m |-> 0, e |-> 0]

RECURSIVE Dy(_, _)
Dy(m, e) ==
    IF m = 0 THEN Zero
    ELSE IF m % 2 = 0 THEN Dy(m \div 2, e + 1)
    ELSE [m |-> m, e |-> e]

DyMul(a, b) == Dy(a.m * b.m, a.e + b.e)

\* n / d for a ratio whose reduced denominator is a power of two
RECURSIVE DyRatio(_, _)
DyRatio(n, d) ==
    IF n % d = 0 THEN Dy(n \div d, 0)
    ELSE LET h == DyRatio(2 * n, d) IN Dy(h.m, h.e - 1)

RECURSIVE Pow2(_)
Pow2(k) == IF k = 0 THEN 1 ELSE 2 * Pow2(k - 1)

Abs(x) == IF x < 0 THEN 0 - x ELSE x

\* mantissas stay below 2^MantBits
MantBits == 10

\* |a| < |b| for non-zero a and b
MagLess(a, b) ==
    LET d == a.e - b.e
    IN  IF d >= 0
        THEN d <= MantBits /\ Abs(a.m) * Pow2(d) < Abs(b.m)
        ELSE 0 - d > MantBits \/ Abs(a.m) < Abs(b.m) * Pow2(0 - d)

DyLess(a, b) ==
    IF a.m = 0 THEN b.m > 0
    ELSE IF b.m = 0 THEN a.m < 0
    ELSE IF (a.m < 0) # (b.m < 0) THEN a.m < 0
    ELSE IF a.m > 0 THEN MagLess(a, b)
    ELSE MagLess(b, a)

IdleProj ==
    /\ valeur_actuelle = 0
    /\ rendement_annuel = 0
    /\ volatilite_annuelle = 0
    /\ rng = 0
    /\ proj_moy = <<>>
    /\ yi = 1
    /\ sim_values = <<>>
    /\ proj_stoch = <<>>

(***************************************************************************)
(* lire_portefeuille                                                       *)
(* A line is a sequence of one-character strings.  A parsed float is the   *)
(* fraction [n, d] (d a power of ten), or Bad when float() raises.         *)
(***************************************************************************)
Digits == {"0", "1", "2", "3", "4", "5", "6", "7", "8", "9"}

DigitVal(c) ==
    CASE c = "0" -> 0 [] c = "1" -> 1 [] c = "2" -> 2 [] c = "3" -> 3
      [] c = "4" -> 4 [] c = "5" -> 5 [] c = "6" -> 6 [] c = "7" -> 7
      [] c = "8" -> 8 [] c = "9" -> 9

Bad == [n |-> 0, d |-> 0]

Frac(n, d) == [n |-> n, d |-> d]

FracMul(a, b) == Frac(a.n * b.n, a.d * b.d)

FracEq(a, b) == a.n * b.d = b.n * a.d

RECURSIVE LStrip(_)
LStrip(s) == IF s # <<>> /\ Head(s) = " " THEN LStrip(Tail(s)) ELSE s

RECURSIVE RStrip(_)
RStrip(s) ==
    IF s # <<>> /\ s[Len(s)] = " " THEN RStrip(SubSeq(s, 1, Len(s) - 1)) ELSE s

\* str.strip()
Strip(s) == RStrip(LStrip(s))

\* str.split("/"): the fields between the separators, empty fields included
RECURSIVE SplitFrom(_, _, _)
SplitFrom(s, k, cur) ==
    IF k > Len(s) THEN <<cur>>
    ELSE IF s[k] = "/" THEN <<cur>> \o SplitFrom(s, k + 1, <<>>)
    ELSE SplitFrom(s, k + 1, Append(cur, s[k]))

Split(s) == SplitFrom(s, 1, <<>>)

\* value of a digit string read as an integer
RECURSIVE IntOf(_)
IntOf(s) == IF s = <<>> THEN 0 ELSE 10 * IntOf(SubSeq(s, 1, Len(s) - 1)) + DigitVal(s[Len(s)])

RECURSIVE Pow10(_)
Pow10(k) == IF k = 0 THEN 1 ELSE 10 * Pow10(k - 1)

DotPositions(s) == {k \in 1..Len(s) : s[k] = "."}

\* float(text) for the characters of the model: surrounding blanks are
\* ignored, then an optional sign and digits with at most one point
ParseFloat(text) ==
    LET t == Strip(text)
        signed == t # <<>> /\ Head(t) \in {"+", "-"}
        sign == IF signed /\ Head(t) = "-" THEN -1 ELSE 1
        s == IF signed THEN Tail(t) ELSE t
        dots == DotPositions(s)
        rest == {k \in 1..Len(s) : s[k] \notin Digits \cup {"."}}
    IN  IF rest # {} \/ Cardinality(dots) > 1 \/ Len(s) = Cardinality(dots)
        THEN Bad
        ELSE IF dots = {}
        THEN Frac(sign * IntOf(s), 1)
        ELSE LET p == CHOOSE k \in dots : TRUE
                 whole == SubSeq(s, 1, p - 1)
                 frac == SubSeq(s, p + 1, Len(s))
             IN  Frac(sign * (IntOf(whole) * Pow10(Len(frac)) + IntOf(frac)),
                      Pow10(Len(frac)))

NoFrame == <<"no frame">>

\* the outcome of the loop body on one stripped, non-blank line:
\* the row appended to data, or Raised when parts[k] or float() raises
Raised == [Ticker |-> <<"raised">>]

ParseLine_NoDefault(line) ==
    LET parts == Split(line)
    IN  IF Len(parts) < 4 THEN Raised
        ELSE LET prix_entree == ParseFloat(parts[2])
                 quantite == ParseFloat(parts[3])
                 dividende_unitaire == ParseFloat(parts[4])
             IN  IF prix_entree = Bad \/ quantite = Bad \/ dividende_unitaire = Bad
                 THEN Raised
                 ELSE [Ticker |-> parts[1], Prix |-> prix_entree, Quantite |-> quantite,
                       Dividendes |-> FracMul(dividende_unitaire, quantite)]

ParseLine(line) ==
    LET parts == Split(line)
    IN  IF Len(parts) < 3 THEN Raised
        ELSE LET prix_entree == ParseFloat(parts[2])
                 quantite == ParseFloat(parts[3])
                 dividende_unitaire ==
                     IF Len(parts) > 3 THEN ParseFloat(parts[4]) ELSE Frac(0, 1)
             IN  IF prix_entree = Bad \/ quantite = Bad \/ dividende_unitaire = Bad
                 THEN Raised
                 ELSE [Ticker |-> parts[1], Prix |-> prix_entree, Quantite |-> quantite,
                       Dividendes |-> FracMul(dividende_unitaire, quantite)]

\* the lines a holdings file is drawn from
LinePool ==
    { <<>>,
      <<" ", " ">>,
      <<"A", "A", "P", "L", "/", "1", "5", "0", ".", "0", "/", "1", "0", "/", "2", ".", "5">>,
      <<"B", "/", "2", "0", "/", "3">>,
      <<" ", "B", "/", "2", "0", "/", "3", " ">>,
      <<"C", "/", "7", "/", " ", "4", "/", "0", ".", "5", "/", "x">>,
      <<"D", "/", "5">>,
      <<"D">>,
      <<"E", "/", "x", "/", "2">>,
      <<"E", "/", "4", "/", "1", ".", "2", ".", "3">>,
      <<"F", "/", "4", "/", "2", "/">>,
      <<"/", "4", "/", "2">>,
      <<"G", "/", "-", "4", "/", "2", "/", "-">> }

RECURSIVE SeqsUpTo(_, _)
SeqsUpTo(S, n) ==
    IF n = 0 THEN {<<>>}
    ELSE LET shorter == SeqsUpTo(S, n - 1)
         IN  shorter \cup {Append(s, x) : s \in {t \in shorter : Len(t) = n - 1}, x \in S}

InitParse ==
    /\ pc = "read"
    /\ lines \in SeqsUpTo(LinePool, MaxLines)
    /\ li = 1
    /\ data = <<>>
    /\ portefeuille = NoFrame
    /\ IdleRisk
    /\ IdleProj

\* one iteration of `for line in f` on a blank line: continue
SkipBlank ==
    /\ pc = "read"
    /\ li <= Len(lines)
    /\ Strip(lines[li]) = <<>>
    /\ li' = li + 1
    /\ UNCHANGED <<pc, lines, data, portefeuille>>
    /\ UNCHANGED <<riskVars, projVars>>

\* one iteration on a well-formed line: data.append(...)
ReadLine ==
    /\ pc = "read"
    /\ li <= Len(lines)
    /\ Strip(lines[li]) # <<>>
    /\ ParseLine(Strip(lines[li])) # Raised
    /\ data' = Append(data, ParseLine(Strip(lines[li])))
    /\ li' = li + 1
    /\ UNCHANGED <<pc, lines, portefeuille>>
    /\ UNCHANGED <<riskVars, projVars>>

\* one iteration on a line whose fields are missing or malformed: the
\* IndexError / ValueError leaves lire_portefeuille, nothing is returned
RaiseOnLine ==
    /\ pc = "read"
    /\ li <= Len(lines)
    /\ Strip(lines[li]) # <<>>
    /\ ParseLine(Strip(lines[li])) = Raised
    /\ pc' = "raised"
    /\ UNCHANGED <<lines, li, data, portefeuille>>
    /\ UNCHANGED <<riskVars, projVars>>

\* end of file: return pd.DataFrame(data, ...)
ReturnFrame ==
    /\ pc = "read"
    /\ li > Len(lines)
    /\ portefeuille' = data
    /\ pc' = "returned"
    /\ UNCHANGED <<lines, li, data>>
    /\ UNCHANGED <<riskVars, projVars>>

NextParse == SkipBlank \/ ReadLine \/ RaiseOnLine \/ ReturnFrame

SpecParse == InitParse /\ [][NextParse]_vars

(***************************************************************************)
(* calculs_financiers and show_risk_dashboard                              *)
(***************************************************************************)
RECURSIVE SumSeq(_)
SumSeq(s) == IF s = <<>> THEN 0 ELSE Head(s) + SumSeq(Tail(s))

RECURSIVE NanSumSeq(_)
NanSumSeq(s) == IF s = <<>> THEN 0 ELSE NanAdd(Head(s), NanSumSeq(Tail(s)))

\* the elements of s, in order, whose position satisfies keep
RECURSIVE Filter(_, _, _)
Filter(s, keep, k) ==
    IF k > Len(s) THEN <<>>
    ELSE IF keep[k] THEN <<s[k]>> \o Filter(s, keep, k + 1)
    ELSE Filter(s, keep, k + 1)

\* the dates of a set in ascending order
RECURSIVE SortedDates(_)
SortedDates(S) ==
    IF S = {} THEN <<>>
    ELSE LET d == CHOOSE x \in S : \A y \in S : x <= y
         IN  <<d>> \o SortedDates(S \ {d})

\* portfolios: one position per ticker, quantities from 1..MaxQty
Portfolios ==
    {<<>>}
    \cup {<<[Ticker |-> "A", Quantite |-> q]>> : q \in 1..MaxQty}
    \cup {<<[Ticker |-> "A", Quantite |-> q], [Ticker |-> "B", Quantite |-> r]>> :
            q \in 1..MaxQty, r \in 1..MaxQty}

Held(p) == {p[k].Ticker : k \in 1..Len(p)}

InitRisk ==
    /\ pc = "calculs"
    /\ portfolio \in Portfolios
    /\ cours \in [Tickers -> CoursPool \cup {NaN}]
    /\ market \in [Tickers -> Outcomes]
    /\ \A t \in Tickers \ Held(portfolio) : cours[t] = NaN /\ market[t] = NoOutcome
    \* a price column holding only None is left out: whether the rounding in
    \* calculs_financiers accepts it depends on the installed pandas
    /\ portfolio # <<>> => \E t \in Held(portfolio) : ~IsNaN(cours[t])
    /\ df_portfolio = <<>>
    /\ ti = 1
    /\ price_hist = <<>>
    /\ missing = <<>>
    /\ price_df = EmptyFrame
    /\ returns = EmptyFrame
    /\ weights = <<>>
    /\ vol_annual = <<>>
    /\ var_95 = NaN
    /\ var_99 = NaN
    /\ corr_matrix = <<>>
    /\ proj_args = NoArgs
    /\ started = {}
    /\ result = PendingResult
    /\ lines = <<>>
    /\ li = 1
    /\ data = <<>>
    /\ portefeuille = NoFrame
    /\ IdleProj

\* get_current_price: the last close, or None (NaN in the column) on failure
get_current_price(t) == cours[t]

\* calculs_financiers: Valeur totale = Cours actuel * Quantite
CalculsFinanciers ==
    /\ pc = "calculs"
    /\ df_portfolio' =
          [k \in 1..Len(portfolio) |->
              [Ticker |-> portfolio[k].Ticker,
               Valeur |-> NanMul(get_current_price(portfolio[k].Ticker),
                                 portfolio[k].Quantite)]]
    /\ pc' = "fetch"
    /\ UNCHANGED <<riskInputs, ti, price_hist, missing, price_df, returns, weights,
                   vol_annual, var_95, var_99, corr_matrix, proj_args, started, result>>
    /\ UNCHANGED <<parseVars, projVars>>

\* get_price_history, one iteration of `for ticker in tickers`:
\* try the fetch, file the ticker under price_hist or under missing
FetchTicker ==
    /\ pc = "fetch"
    /\ ti <= Len(df_portfolio)
    /\ LET ticker == df_portfolio[ti].Ticker
           hist == market[ticker]
       IN  IF ~hist.raises /\ hist.index # {}
           THEN /\ price_hist' = IF ticker \in Range(price_hist) THEN price_hist
                                 ELSE Append(price_hist, ticker)
                /\ UNCHANGED missing
           ELSE /\ missing' = Append(missing, ticker)
                /\ UNCHANGED price_hist
    /\ ti' = ti + 1
    /\ UNCHANGED <<pc, riskInputs, df_portfolio, price_df, returns, weights, vol_annual,
                   var_95, var_99, corr_matrix, proj_args, started, result>>
    /\ UNCHANGED <<parseVars, projVars>>

\* pd.DataFrame(price_hist): the columns joined on the union of their dates
FrameOf(keys) ==
    Frame(keys,
          UNION {market[keys[k]].index : k \in 1..Len(keys)},
          [k \in 1..Len(keys) |-> market[keys[k]].close])

\* DataFrame.dropna(axis=1, how='all'): drop the columns that hold only NaN
DropAllNaNColumns(f) ==
    LET keep == [k \in 1..Len(f.columns) |-> \E d \in f.index : ~IsNaN(f.val[k][d])]
    IN  Frame(Filter(f.columns, keep, 1), f.index, Filter(f.val, keep, 1))

\* get_price_history, after the loop: build the table and return
ReturnPriceHistory ==
    /\ pc = "fetch"
    /\ ti > Len(df_portfolio)
    /\ price_df' = DropAllNaNColumns(FrameOf(price_hist))
    /\ pc' = "check"
    /\ UNCHANGED <<riskInputs, df_portfolio, ti, price_hist, missing, returns, weights,
                   vol_annual, var_95, var_99, corr_matrix, proj_args, started, result>>
    /\ UNCHANGED <<parseVars, projVars>>

\* show_risk_dashboard: `if price_df.empty: return None, None, None`
ReturnNoData ==
    /\ pc = "check"
    /\ IsEmpty(price_df)
    /\ result' = Sentinel
    /\ pc' = "done"
    /\ UNCHANGED <<riskInputs, df_portfolio, ti, price_hist, missing, price_df, returns,
                   weights, vol_annual, var_95, var_99, corr_matrix, proj_args, started>>
    /\ UNCHANGED <<parseVars, projVars>>

\* the value pct_change divides: with pad, the last value seen up to date d
Filled(col, idx, d, pad) ==
    IF ~pad THEN col[d]
    ELSE LET seen == {e \in idx : e <= d /\ ~IsNaN(col[e])}
         IN  IF seen = {} THEN NaN
             ELSE col[CHOOSE e \in seen : \A x \in seen : x <= e]

\* DataFrame.pct_change(): change relative to the previous row, NaN on the
\* first row; pad is the fill_method default of the installed pandas
PctChange(f, pad) ==
    Frame(f.columns, f.index,
          [k \in 1..Len(f.columns) |->
              [d \in Dates |->
                  LET before == {e \in f.index : e < d}
                  IN  IF d \notin f.index \/ before = {} THEN NaN
                      ELSE LET prev == CHOOSE e \in before : \A x \in before : x <= e
                               a == Filled(f.val[k], f.index, prev, pad)
                               b == Filled(f.val[k], f.index, d, pad)
                           IN  IF IsNaN(a) \/ IsNaN(b) THEN NaN
                               ELSE ((b - a) * RetScale) \div a]])

\* DataFrame.dropna(): drop the rows that hold a NaN
DropNaNRows(f) ==
    LET idx == {d \in f.index : \A k \in 1..Len(f.columns) : ~IsNaN(f.val[k][d])}
    IN  Frame(f.columns, idx,
              [k \in 1..Len(f.columns) |->
                  [d \in Dates |-> IF d \in idx THEN f.val[k][d] ELSE NaN]])

\* returns = price_df.pct_change().dropna()
ComputeReturns ==
    /\ pc = "check"
    /\ ~IsEmpty(price_df)
    /\ \E pad \in BOOLEAN : returns' = DropNaNRows(PctChange(price_df, pad))
    /\ started' = started \cup {"returns"}
    /\ pc' = "weights"
    /\ UNCHANGED <<riskInputs, df_portfolio, ti, price_hist, missing, price_df, weights,
                   vol_annual, var_95, var_99, corr_matrix, proj_args, result>>
    /\ UNCHANGED <<parseVars, projVars>>

\* df_valid: the rows of df_portfolio whose ticker is a column of returns
ValidRows(df, ret) ==
    Filter(df, [k \in 1..Len(df) |-> df[k].Ticker \in Range(ret.columns)], 1)

\* Series.sum(): NaN entries are skipped
SkipNaSum(vals) ==
    SumSeq(Filter(vals, [k \in 1..Len(vals) |-> ~IsNaN(vals[k])], 1))

\* weights = Valeur / Valeur.sum(), one entry per row of df_valid
WeightsOf(df_valid) ==
    LET total == SkipNaSum([k \in 1..Len(df_valid) |-> df_valid[k].Valeur])
    IN  [k \in 1..Len(df_valid) |->
            [Ticker |-> df_valid[k].Ticker,
             num |-> IF total = 0 THEN NaN ELSE df_valid[k].Valeur,
             den |-> total]]

ComputeWeights ==
    /\ pc = "weights"
    /\ weights' = WeightsOf(ValidRows(df_portfolio, returns))
    /\ started' = started \cup {"weights"}
    /\ pc' = "volatility"
    /\ UNCHANGED <<riskInputs, df_portfolio, ti, price_hist, missing, price_df, returns,
                   vol_annual, var_95, var_99, corr_matrix, proj_args, result>>
    /\ UNCHANGED <<parseVars, projVars>>

\* the values of a column of returns, in date order
ReturnsOf(ret, t) ==
    LET ds == SortedDates(ret.index)
    IN  [j \in 1..Len(ds) |-> Column(ret, t)[ds[j]]]

\* n * sum(x*y) - sum(x) * sum(y)
CoMoment(x, y) ==
    Len(x) * SumSeq([j \in 1..Len(x) |-> x[j] * y[j]]) - SumSeq(x) * SumSeq(y)

TradingDays == 252

\* calc_volatility: returns.std() * sqrt(252), kept as its square
\* [num / den]; the sample deviation of fewer than two values is NaN
Volatility2(x) ==
    IF Len(x) < 2 THEN [num |-> NaN, den |-> 1]
    ELSE [num |-> TradingDays * CoMoment(x, x), den |-> Len(x) * (Len(x) - 1)]

ComputeVolatility ==
    /\ pc = "volatility"
    /\ vol_annual' =
          [k \in 1..Len(weights) |->
              [Ticker |-> weights[k].Ticker,
               vol2 |-> Volatility2(ReturnsOf(returns, weights[k].Ticker))]]
    /\ started' = started \cup {"volatility"}
    /\ pc' = "var"
    /\ UNCHANGED <<riskInputs, df_portfolio, ti, price_hist, missing, price_df, returns,
                   weights, var_95, var_99, corr_matrix, proj_args, result>>
    /\ UNCHANGED <<parseVars, projVars>>

\* returns[weights.index].dot(weights): the weighted return of each date,
\* in units of 1 / (RetScale * den); NaN as soon as one weight is NaN
PortfReturns(ret, w) ==
    LET ds == SortedDates(ret.index)
    IN  [j \in 1..Len(ds) |->
            NanSumSeq([k \in 1..Len(w) |->
                          NanMul(Column(ret, w[k].Ticker)[ds[j]], w[k].num)])]

Ascending(s) == SortSeq(s, LAMBDA a, b : a < b)

\* 100 * np.percentile(s, q) of a non-empty series without NaN: linear
\* interpolation between the two order statistics around (n - 1) * q / 100
Percentile100(s, q) ==
    LET sorted == Ascending(s)
        n == Len(s)
        lo == ((n - 1) * q) \div 100 + 1
        fr == ((n - 1) * q) % 100
    IN  IF lo >= n THEN 100 * sorted[n]
        ELSE 100 * sorted[lo] + (sorted[lo + 1] - sorted[lo]) * fr

\* calc_var with the percentile taken at the confidence level itself
calc_var_Upper(series, confidence) ==
    IF \E j \in 1..Len(series) : IsNaN(series[j]) THEN NaN
    ELSE 0 - Percentile100(series, confidence)

\* calc_var: -np.percentile(series, (1 - confidence) * 100), confidence in
\* percent; a NaN in the series makes the percentile NaN
calc_var(series, confidence) ==
    IF \E j \in 1..Len(series) : IsNaN(series[j]) THEN NaN
    ELSE 0 - Percentile100(series, 100 - confidence)

compute_portfolio_var(ret, w, confidence) ==
    calc_var(PortfReturns(ret, w), confidence)

\* var_95 and var_99.  np.percentile of an empty series depends on the
\* installed numpy: it raises IndexError, or it returns NaN
ComputeVaR ==
    /\ pc = "var"
    /\ started' = started \cup {"var"}
    /\ IF PortfReturns(returns, weights) = <<>>
       THEN \E raises \in BOOLEAN :
               /\ pc' = IF raises THEN "raised" ELSE "correlation"
               /\ var_95' = NaN
               /\ var_99' = NaN
       ELSE /\ var_95' = compute_portfolio_var(returns, weights, 95)
            /\ var_99' = compute_portfolio_var(returns, weights, 99)
            /\ pc' = "correlation"
    /\ UNCHANGED <<riskInputs, df_portfolio, ti, price_hist, missing, price_df, returns,
                   weights, vol_annual, corr_matrix, proj_args, result>>
    /\ UNCHANGED <<parseVars, projVars>>

\* b * sqrt(D) <= a, for integers a, b and D > 0
LeSqrt(b, a, D) ==
    IF b >= 0
    THEN a >= 0 /\ b * b * D <= a * a
    ELSE a >= 0 \/ b * b * D >= a * a

\* round(c / sqrt(D), 2) in hundredths
Round2(c, D) ==
    CHOOSE k \in -100..100 :
        /\ LeSqrt(2 * k - 1, 200 * c, D)
        /\ ~LeSqrt(2 * k + 1, 200 * c, D)

\* Pearson correlation of two columns, rounded to 2 decimals, in
\* hundredths; NaN when a column has no spread or no observation
Pearson_Unit(x, y) ==
    IF x = y THEN 100
    ELSE LET D == CoMoment(x, x) * CoMoment(y, y)
         IN  IF Len(x) = 0 \/ D = 0 THEN NaN ELSE Round2(CoMoment(x, y), D)

Pearson(x, y) ==
    LET D == CoMoment(x, x) * CoMoment(y, y)
    IN  IF Len(x) = 0 \/ D = 0 THEN NaN ELSE Round2(CoMoment(x, y), D)

\* DataFrame.corr().round(2): the upper triangle, mirrored
CorrOf(ret, cols) ==
    [i \in 1..Len(cols) |->
        [j \in 1..Len(cols) |->
            Pearson(ReturnsOf(ret, cols[Min(i, j)]), ReturnsOf(ret, cols[Max(i, j)]))]]

ComputeCorrelation ==
    /\ pc = "correlation"
    /\ corr_matrix' = CorrOf(returns, [k \in 1..Len(weights) |-> weights[k].Ticker])
    /\ started' = started \cup {"correlation"}
    /\ pc' = "projection"
    /\ UNCHANGED <<riskInputs, df_portfolio, ti, price_hist, missing, price_df, returns,
                   weights, vol_annual, var_95, var_99, proj_args, result>>
    /\ UNCHANGED <<parseVars, projVars>>

\* show_projections(valeur_actuelle = Valeur.sum(), rendement_annuel = 0,
\*                  volatilite_annuelle = vol_annual.mean() * 100)
CallProjections ==
    /\ pc = "projection"
    /\ proj_args' =
          [called |-> TRUE,
           valeur_actuelle |->
               IF weights = <<>> THEN 0 ELSE weights[1].den,
           rendement_annuel |-> 0,
           volatilite_annuelle |-> vol_annual]
    /\ started' = started \cup {"projections"}
    /\ pc' = "return"
    /\ UNCHANGED <<riskInputs, df_portfolio, ti, price_hist, missing, price_df, returns,
                   weights, vol_annual, var_95, var_99, corr_matrix, result>>
    /\ UNCHANGED <<parseVars, projVars>>

\* return vol_annual, var_95, var_99
ReturnRisk ==
    /\ pc = "return"
    /\ result' = [kind |-> "values", vol_annual |-> vol_annual,
                  var_95 |-> var_95, var_99 |-> var_99]
    /\ pc' = "done"
    /\ UNCHANGED <<riskInputs, df_portfolio, ti, price_hist, missing, price_df, returns,
                   weights, vol_annual, var_95, var_99, corr_matrix, proj_args, started>>
    /\ UNCHANGED <<parseVars, projVars>>

NextRisk ==
    \/ CalculsFinanciers
    \/ FetchTicker
    \/ ReturnPriceHistory
    \/ ReturnNoData
    \/ ComputeReturns
    \/ ComputeWeights
    \/ ComputeVolatility
    \/ ComputeVaR
    \/ ComputeCorrelation
    \/ CallProjections
    \/ ReturnRisk

SpecRisk == InitRisk /\ [][NextRisk]_vars

(***************************************************************************)
(* show_projections                                                        *)
(***************************************************************************)
\* standard normal draws the generator cycles through, from its seed on
ZPool == <<-1, 0, 1>>

NextRng(g) == (g % Len(ZPool)) + 1

\* np.random.normal(r / 100, sigma / 100), in percent: r + sigma * z
NormalDraw(r, sigma, g) == r + sigma * ZPool[g]

\* annual returns and volatilities, in percent
Rates == {-300, -200, -150, -100, -75, -50, 0, 100, 300}

Vols == {0, 100}

\* n / 100 is zero or, up to its sign, a power of two
IsDyadic(n) == n = 0 \/ \E k \in 0..4 : Abs(n) * Pow2(k) = 400

InitProj ==
    /\ pc = "moyenne"
    /\ valeur_actuelle \in 0..MaxV
    /\ rendement_annuel \in Rates
    /\ volatilite_annuelle \in Vols
    /\ rng \in 1..Len(ZPool)
    \* without volatility the draws do not depend on the seed
    /\ volatilite_annuelle = 0 => rng = 1
    /\ \A g \in 1..Len(ZPool) :
          IsDyadic(100 + NormalDraw(rendement_annuel, volatilite_annuelle, g))
    /\ proj_moy = <<>>
    /\ yi = 1
    /\ sim_values = <<>>
    /\ proj_stoch = <<>>
    /\ lines = <<>>
    /\ li = 1
    /\ data = <<>>
    /\ portefeuille = NoFrame
    /\ IdleRisk

RECURSIVE DyPow(_, _)
DyPow(a, y) == IF y = 0 THEN Dy(1, 0) ELSE DyMul(a, DyPow(a, y - 1))

\* V * (1 + r / 100) * y
Projection_Linear(V, r, y) ==
    DyMul(Dy(V, 0), DyMul(DyRatio(100 + r, 100), Dy(y, 0)))

\* valeur_actuelle * ((1 + rendement_annuel/100)**y)
Projection(V, r, y) == DyMul(Dy(V, 0), DyPow(DyRatio(100 + r, 100), y))

\* proj_moy = {y: ... for y in YEARS}
DeterministicProjection ==
    /\ pc = "moyenne"
    /\ proj_moy' = [k \in 1..Len(YEARS) |->
                       Projection(valeur_actuelle, rendement_annuel, YEARS[k])]
    /\ pc' = "horizon"
    /\ UNCHANGED <<projInputs, rng, yi, sim_values, proj_stoch>>
    /\ UNCHANGED <<parseVars, riskVars>>

\* `for y in YEARS: sim_values = []`
StartHorizon ==
    /\ pc = "horizon"
    /\ yi <= Len(YEARS)
    /\ sim_values' = <<>>
    /\ pc' = "simulate"
    /\ UNCHANGED <<projInputs, rng, proj_moy, yi, proj_stoch>>
    /\ UNCHANGED <<parseVars, riskVars>>

\* `for _ in range(y): val *= 1 + np.random.normal(...)`
RECURSIVE Compound(_, _, _)
Compound(val, g, steps) ==
    IF steps = 0 THEN val
    ELSE Compound(
             DyMul(val, DyRatio(100 + NormalDraw(rendement_annuel, volatilite_annuelle, g), 100)),
             NextRng(g), steps - 1)

RECURSIVE Advance(_, _)
Advance(g, steps) == IF steps = 0 THEN g ELSE Advance(NextRng(g), steps - 1)

\* the value a simulation starts from when the previous one is not reset
StartValue_Carried(V, sims) == IF sims = <<>> THEN Dy(V, 0) ELSE sims[Len(sims)]

\* `val = valeur_actuelle`
StartValue(V, sims) == Dy(V, 0)

\* one pass of `for _ in range(SIMULATIONS)`: a whole simulated path
Simulate ==
    /\ pc = "simulate"
    /\ Len(sim_values) < SIMULATIONS
    /\ sim_values' = Append(sim_values,
                            Compound(StartValue(valeur_actuelle, sim_values), rng, YEARS[yi]))
    /\ rng' = Advance(rng, YEARS[yi])
    /\ UNCHANGED <<pc, projInputs, proj_moy, yi, proj_stoch>>
    /\ UNCHANGED <<parseVars, riskVars>>

\* the k-th smallest element of s
OrderStat(s, k) ==
    CHOOSE x \in Range(s) :
        /\ Cardinality({j \in 1..Len(s) : DyLess(s[j], x)}) < k
        /\ Cardinality({j \in 1..Len(s) : ~DyLess(x, s[j])}) >= k

\* np.percentile(s, q) by linear interpolation; the interpolation between
\* two different values is kept unevaluated
PercentileOf(s, q) ==
    LET n == Len(s)
        lo == ((n - 1) * q) \div 100 + 1
        fr == ((n - 1) * q) % 100
        a == OrderStat(s, lo)
        b == OrderStat(s, Min(lo + 1, n))
    IN  IF fr = 0 \/ a = b THEN a ELSE [lo |-> a, hi |-> b, fr |-> fr]

\* proj_stoch[y] = {median, 5th percentile, 95th percentile}
Summarize ==
    /\ pc = "simulate"
    /\ Len(sim_values) = SIMULATIONS
    /\ proj_stoch' = Append(proj_stoch,
                            [Mediane |-> PercentileOf(sim_values, 50),
                             Min5 |-> PercentileOf(sim_values, 5),
                             Max95 |-> PercentileOf(sim_values, 95)])
    /\ yi' = yi + 1
    /\ pc' = IF yi = Len(YEARS) THEN "done" ELSE "horizon"
    /\ UNCHANGED <<projInputs, rng, proj_moy, sim_values>>
    /\ UNCHANGED <<parseVars, riskVars>>

NextProj == DeterministicProjection \/ StartHorizon \/ Simulate \/ Summarize

SpecProj == InitProj /\ [][NextProj]_vars

(***************************************************************************)
(* C4  lire_portefeuille                                                   *)
(***************************************************************************)
NonBlank(k) == Strip(lines[k]) # <<>>

Fields(k) == Split(Strip(lines[k]))

\* a numeric field of line k is missing or is not a number
Malformed(k) ==
    /\ NonBlank(k)
    /\ \/ Len(Fields(k)) < 3
       \/ ParseFloat(Fields(k)[2]) = Bad
       \/ ParseFloat(Fields(k)[3]) = Bad
       \/ Len(Fields(k)) > 3 /\ ParseFloat(Fields(k)[4]) = Bad

RECURSIVE NonBlankUpTo(_)
NonBlankUpTo(k) ==
    IF k = 0 THEN <<>>
    ELSE IF NonBlank(k) THEN Append(NonBlankUpTo(k - 1), k) ELSE NonBlankUpTo(k - 1)

DividendPerUnit(k) ==
    IF Len(Fields(k)) > 3 THEN ParseFloat(Fields(k)[4]) ELSE Frac(0, 1)

RowMatchesLine(row, k) ==
    /\ row.Ticker = Fields(k)[1]
    /\ FracEq(row.Prix, ParseFloat(Fields(k)[2]))
    /\ FracEq(row.Quantite, ParseFloat(Fields(k)[3]))
    /\ FracEq(row.Dividendes, FracMul(DividendPerUnit(k), ParseFloat(Fields(k)[3])))

AaplLine ==
    <<"A", "A", "P", "L", "/", "1", "5", "0", ".", "0", "/", "1", "0", "/", "2", ".", "5">>

\* C4: lire_portefeuille either returns one position per non-blank line, in
\* file order, with totalDividends = dividendPerUnit * quantity (0 when the
\* fourth field is absent; AAPL/150.0/10/2.5 gives 25.0), or it fails at the
\* first line whose numeric fields are malformed or missing and returns no
\* portfolio; only blank lines are skipped.
C4_NoSilentDrop ==
    /\ pc = "returned" =>
          LET idx == NonBlankUpTo(Len(lines))
          IN  /\ \A k \in 1..Len(lines) : ~Malformed(k)
              /\ Len(portefeuille) = Len(idx)
              /\ \A j \in 1..Len(idx) : RowMatchesLine(portefeuille[j], idx[j])
              /\ \A j \in 1..Len(idx) :
                    lines[idx[j]] = AaplLine => FracEq(portefeuille[j].Dividendes, Frac(25, 1))
    /\ pc = "raised" =>
          /\ Malformed(li)
          /\ \A k \in 1..(li - 1) : ~Malformed(k)
          /\ portefeuille = NoFrame
    /\ pc = "read" =>
          /\ portefeuille = NoFrame
          /\ Len(data) = Len(NonBlankUpTo(li - 1))

\* a file with a blank line and the AAPL line has been read to the end
C4_Witness ==
    /\ pc = "returned"
    /\ \E k \in 1..Len(lines) : ~NonBlank(k)
    /\ \E j \in 1..Len(portefeuille) :
          /\ portefeuille[j].Ticker = <<"A", "A", "P", "L">>
          /\ FracEq(portefeuille[j].Dividendes, Frac(25, 1))

(***************************************************************************)
(* Claims about get_price_history and show_risk_dashboard (SpecRisk)       *)
(***************************************************************************)
FetchFailed(t) == market[t].raises \/ market[t].index = {}

AllMissing == \A t \in Held(portfolio) : FetchFailed(t)

PastFetch == pc \notin {"calculs", "fetch"}

\* C1: get_price_history processes every ticker whatever the outcomes of
\* the tickers before it, and on return each input ticker is in exactly one
\* of the two results: a column of the price table iff its fetch returned a
\* non-empty history, in the missing list iff it returned empty or raised.
C1_PartitionByOutcome ==
    PastFetch =>
        /\ ti = Len(df_portfolio) + 1
        /\ \A t \in Held(portfolio) :
              /\ t \in Range(price_df.columns) <=> ~FetchFailed(t)
              /\ t \in Range(missing) <=> FetchFailed(t)
              /\ t \in Range(price_df.columns) <=> t \notin Range(missing)

\* C2: when every requested ticker fails to fetch, show_risk_dashboard
\* returns the sentinel and no downstream stage (returns, weights,
\* volatility, VaR, correlation, show_projections) is ever started; the
\* sentinel is returned only in that all-missing case.
C2_SentinelIffAllMissing ==
    /\ AllMissing =>
          /\ started = {}
          /\ ~proj_args.called
          /\ pc = "done" => result = Sentinel
    /\ result = Sentinel => AllMissing /\ started = {} /\ ~proj_args.called

ValeurOf(t) == df_portfolio[CHOOSE k \in 1..Len(df_portfolio) : df_portfolio[k].Ticker = t].Valeur

WeightEntries(t) == {k \in 1..Len(weights) : weights[k].Ticker = t}

\* C3: past the no-data check, the weight vector is a normalized
\* distribution over exactly the tickers that have both a valid position
\* value and a price history: no entry for any other ticker, every entry a
\* number in [0,1], the entries summing to 1.
C3_NormalizedWeights ==
    "weights" \in started =>
        /\ \A t \in Held(portfolio) :
              WeightEntries(t) # {} <=>
                  ~IsNaN(ValeurOf(t)) /\ t \in Range(price_df.columns)
        /\ \A k \in 1..Len(weights) :
              /\ ~IsNaN(weights[k].num)
              /\ weights[k].den > 0
              /\ 0 <= weights[k].num /\ weights[k].num <= weights[k].den
        /\ \A k \in 1..Len(weights) :
              NanSumSeq([j \in 1..Len(weights) |-> weights[j].num]) = weights[k].den

\* C5: when a ticker has a price history but the return series is empty,
\* show_risk_dashboard completes without raising and the VaR values it
\* returns at 95% and 99% are NaN.
C5_EmptyReturnsDoNotCrash ==
    ("var" \in started /\ returns.index = {}) =>
        /\ pc # "raised"
        /\ pc = "done" =>
              result.kind = "values" /\ IsNaN(result.var_95) /\ IsNaN(result.var_99)

\* the dates on which every ticker of the price table has an observation
CommonDates ==
    {d \in Dates : \A k \in 1..Len(price_df.columns) : d \in market[price_df.columns[k]].index}

\* C6: the returns are the simple percentage changes between consecutive
\* dates common to all tickers, so every ticker's return series has the
\* same date index, of length (number of common dates) - 1.
C6_InnerJoinReturns ==
    "returns" \in started =>
        LET ds == SortedDates(CommonDates)
        IN  /\ returns.index = {ds[j] : j \in 2..Len(ds)}
            /\ Cardinality(returns.index) = Max(Len(ds) - 1, 0)
            /\ \A k \in 1..Len(returns.columns) : \A j \in 2..Len(ds) :
                  LET close == market[returns.columns[k]].close
                  IN  returns.val[k][ds[j]] * close[ds[j - 1]] =
                          (close[ds[j]] - close[ds[j - 1]]) * RetScale

VarComputed == pc \in {"correlation", "projection", "return", "done"}

\* C9: for a weighted portfolio return series that is non-empty and free of
\* NaN, the VaR at confidence 0.99 is at least the VaR at 0.95, each being
\* minus the (1 - c) * 100-th percentile of sum(weight_i * return_i).
C9_VarMonotoneInConfidence ==
    LET series == PortfReturns(returns, weights)
    IN  (VarComputed /\ series # <<>> /\ \A j \in 1..Len(series) : ~IsNaN(series[j])) =>
            /\ var_99 >= var_95
            /\ var_95 = 0 - Percentile100(series, 5)
            /\ var_99 = 0 - Percentile100(series, 1)

\* a dashboard run whose weighted returns differ from date to date
C9_Witness ==
    /\ pc = "done"
    /\ result.kind = "values"
    /\ ~IsNaN(result.var_95) /\ ~IsNaN(result.var_99)
    /\ result.var_99 > result.var_95
    /\ Len(weights) = 2

\* C10 as stated: the correlation matrix is symmetric and has 1.0 on every
\* diagonal entry, also for a ticker whose returns are all equal.
C10_UnitDiagonal ==
    "correlation" \in started =>
        \A i \in 1..Len(corr_matrix) :
            /\ corr_matrix[i][i] = 100
            /\ \A j \in 1..Len(corr_matrix) : corr_matrix[i][j] = corr_matrix[j][i]

Spread(t) == LET x == ReturnsOf(returns, t) IN CoMoment(x, x)

\* C10 amended: the matrix is symmetric (NaN facing NaN), and its diagonal
\* entry is 1.0 for every ticker whose returns are not all equal and NaN for
\* a ticker whose returns are all equal or that has no return at all.
C10_DiagonalWhereDefined ==
    "correlation" \in started =>
        /\ Len(corr_matrix) = Len(weights)
        /\ \A i \in 1..Len(corr_matrix) :
              /\ Spread(weights[i].Ticker) # 0 => corr_matrix[i][i] = 100
              /\ Spread(weights[i].Ticker) = 0 => IsNaN(corr_matrix[i][i])
              /\ \A j \in 1..Len(corr_matrix) : corr_matrix[i][j] = corr_matrix[j][i]

\* two tickers, one with constant returns and one with varying returns
C10_Witness ==
    /\ "correlation" \in started
    /\ Len(corr_matrix) = 2
    /\ Cardinality(returns.index) >= 2
    /\ \E i, j \in 1..2 : corr_matrix[i][i] = 100 /\ IsNaN(corr_matrix[j][j])

(***************************************************************************)
(* Claims about show_projections (SpecProj)                                *)
(***************************************************************************)
ProjectionDone == pc \in {"horizon", "simulate", "done"} /\ proj_moy # <<>>

\* C7 as stated: the fixed-rate projection over the horizons 1, 5, 10, 20,
\* 30 is strictly increasing in y for any r > 0, strictly decreasing in y
\* for any r < 0, and equal to V at every horizon for r = 0.
C7_MonotoneForAnyRate ==
    ProjectionDone =>
        /\ rendement_annuel > 0 =>
              \A k \in 1..(Len(YEARS) - 1) : DyLess(proj_moy[k], proj_moy[k + 1])
        /\ rendement_annuel < 0 =>
              \A k \in 1..(Len(YEARS) - 1) : DyLess(proj_moy[k + 1], proj_moy[k])
        /\ rendement_annuel = 0 =>
              \A k \in 1..Len(YEARS) : proj_moy[k] = Dy(valeur_actuelle, 0)

\* C7 amended: for V > 0 the projection is strictly increasing in y for
\* r > 0 and strictly decreasing in y for -100 < r < 0; for r = 0 it equals
\* V at every horizon.
C7_MonotoneAboveMinus100 ==
    ProjectionDone =>
        /\ (valeur_actuelle > 0 /\ rendement_annuel > 0) =>
              \A k \in 1..(Len(YEARS) - 1) : DyLess(proj_moy[k], proj_moy[k + 1])
        /\ (valeur_actuelle > 0 /\ rendement_annuel < 0 /\ rendement_annuel > -100) =>
              \A k \in 1..(Len(YEARS) - 1) : DyLess(proj_moy[k + 1], proj_moy[k])
        /\ rendement_annuel = 0 =>
              \A k \in 1..Len(YEARS) : proj_moy[k] = Dy(valeur_actuelle, 0)

\* a projection at a negative rate above -100 % has been computed
C7_Witness ==
    /\ ProjectionDone
    /\ valeur_actuelle > 0
    /\ rendement_annuel < 0 /\ rendement_annuel > -100
    /\ DyLess(proj_moy[Len(YEARS)], proj_moy[1])

\* the fixed-rate value V * (1 + r/100)^y, compounded year by year
RECURSIVE Compounded(_, _, _)
Compounded(V, r, y) ==
    IF y = 0 THEN Dy(V, 0) ELSE DyMul(Compounded(V, r, y - 1), DyRatio(100 + r, 100))

\* C8: for each horizon y exactly 1000 ending values are collected, each
\* obtained by restarting from V and compounding y draws; when every draw
\* equals r/100 (sigma = 0) every ending value, and hence the median, the
\* 5th and the 95th percentile, equals V * (1 + r/100)^y.
C8_ZeroVolatilityIsDeterministic ==
    /\ Len(sim_values) <= SIMULATIONS
    /\ Len(proj_stoch) = yi - 1
    /\ (proj_stoch # <<>> /\ pc # "simulate") => Len(sim_values) = SIMULATIONS
    /\ volatilite_annuelle = 0 =>
          /\ pc = "simulate" =>
                LET det == Compounded(valeur_actuelle, rendement_annuel, YEARS[yi])
                IN  \A j \in 1..Len(sim_values) : sim_values[j] = det
          /\ \A k \in 1..Len(proj_stoch) :
                LET det == Compounded(valeur_actuelle, rendement_annuel, YEARS[k])
                IN  /\ proj_stoch[k].Mediane = det
                    /\ proj_stoch[k].Min5 = det
                    /\ proj_stoch[k].Max95 = det
                    /\ proj_moy[k] = det

\* all five horizons simulated without volatility at a non-zero rate
C8_Witness ==
    /\ pc = "done"
    /\ volatilite_annuelle = 0
    /\ rendement_annuel = 100
    /\ valeur_actuelle > 0
    /\ Len(proj_stoch) = Len(YEARS)
    /\ proj_stoch[Len(YEARS)].Mediane = Dy(valeur_actuelle, 30)

====
